---------------------------- MODULE Spec2Model ----------------------------
(***************************************************************************)
(* Model of the two algorithms of ContentAutomation:                       *)
(*   - caption_generator.group_words_into_phrases (phrase segmentation),   *)
(*   - main.create_video_sequence with main.process_video_clip and         *)
(*     main.resize_clip_vertical (clip sequencing and crop geometry).      *)
(* Times and durations are integers counting tenths of a second, so the    *)
(* source's 0.7 s, 4.0 s and 5.0 s are 7, 40 and 50.  Frame sizes are      *)
(* pixels.  Each function is an operator computed the way the code         *)
(* computes it; a specification draws the inputs in its initial states and *)
(* its action applies the function.                                        *)
(***************************************************************************)
EXTENDS Integers, Sequences, FiniteSets

VARIABLES
    pc,                       \* which call is pending or has returned
    words,                    \* group_words_into_phrases: argument words
    target_words_per_phrase,  \* group_words_into_phrases: argument
    phrases,                  \* group_words_into_phrases: returned list
    runs,                     \* current_words as it was at each flush
    video_paths,              \* create_video_sequence: argument (the pool)
    target_duration,          \* create_video_sequence: argument
    sequence,                 \* create_video_sequence: outcome
    clip_size,                \* resize_clip_vertical: clip.size
    crop                      \* resize_clip_vertical: the resize and crop made

vars == <<pc, words, target_words_per_phrase, phrases, runs,
          video_paths, target_duration, sequence, clip_size, crop>>

-----------------------------------------------------------------------------
(* Bounds of the model. *)

MaxWords == 4

MaxRunWords == 6

MaxPool == 4

MaxDim == 24

-----------------------------------------------------------------------------
(* Program constants, in tenths of a second or in pixels. *)

PauseGap == 7

MaxSpan == 40

DefaultTarget == 5

ClipCap == 50

VERTICAL_WIDTH == 1080

VERTICAL_HEIGHT == 1920

-----------------------------------------------------------------------------
(* Small helpers. *)

Min(a, b) == IF a <= b THEN a ELSE b

Max(a, b) == IF a >= b THEN a ELSE b

Last(s) == s[Len(s)]

RECURSIVE SumSeq(_)
SumSeq(s) == IF s = <<>> THEN 0 ELSE s[1] + SumSeq(Tail(s))

RECURSIVE Flatten(_)
Flatten(ss) == IF ss = <<>> THEN <<>> ELSE ss[1] \o Flatten(Tail(ss))

-----------------------------------------------------------------------------
(* caption_generator.py: group_words_into_phrases                          *)

(* str.strip(): a text is a sequence of characters, " " the whitespace. *)
RECURSIVE StripLeft(_)
StripLeft(t) ==
    IF t # <<>> /\ t[1] = " " THEN StripLeft(Tail(t)) ELSE t

RECURSIVE StripRight(_)
StripRight(t) ==
    IF t # <<>> /\ Last(t) = " " THEN StripRight(SubSeq(t, 1, Len(t) - 1)) ELSE t

Strip(t) == StripRight(StripLeft(t))

(* " ".join(w["text"].strip() for w in current_words) *)
RECURSIVE JoinStripped(_)
JoinStripped(ws) ==
    IF ws = <<>> THEN <<>>
    ELSE IF Len(ws) = 1 THEN Strip(ws[1].text)
    ELSE Strip(ws[1].text) \o <<" ">> \o JoinStripped(Tail(ws))

(* CaptionPhrase(text=..., start_time=current_words[0]["start"],
   end_time=current_words[-1]["end"]) *)
MakePhrase(current_words) ==
    [text       |-> JoinStripped(current_words),
     start_time |-> current_words[1].start,
     end_time   |-> Last(current_words).end]

(* The condition of the if that starts a new phrase; "or" evaluates left to
   right and stops at the first true operand, as \/ does in TLC. *)
ShouldClose_NoPause(current_words, current_start, word, target) ==
    \/ current_words = <<>>
    \/ Len(current_words) >= target
    \/ word.end - current_start > MaxSpan

ShouldClose_CountGreater(current_words, current_start, word, target) ==
    \/ current_words = <<>>
    \/ Len(current_words) > target
    \/ word.start - Last(current_words).end > PauseGap
    \/ word.end - current_start > MaxSpan

ShouldClose_NoSpan(current_words, current_start, word, target) ==
    \/ current_words = <<>>
    \/ Len(current_words) >= target
    \/ word.start - Last(current_words).end > PauseGap

ShouldClose(current_words, current_start, word, target) ==
    \/ current_words = <<>>
    \/ Len(current_words) >= target
    \/ word.start - Last(current_words).end > PauseGap
    \/ word.end - current_start > MaxSpan

(* The state of the loop: the locals phrases, current_words, current_start,
   and runs, which keeps the current_words each phrase was made from. *)
SegInit ==
    [phrases |-> <<>>, runs |-> <<>>, current_words |-> <<>>, current_start |-> 0]

(* "if current_words: phrases.append(CaptionPhrase(...))" *)
Flush(st) ==
    IF st.current_words # <<>>
    THEN [st EXCEPT !.phrases = Append(@, MakePhrase(st.current_words)),
                    !.runs    = Append(@, st.current_words)]
    ELSE st

(* One iteration of "for word in words". *)
SegStep(st, word, target) ==
    LET closed ==
            IF ShouldClose(st.current_words, st.current_start, word, target)
            THEN [Flush(st) EXCEPT !.current_words = <<>>,
                                   !.current_start = word.start]
            ELSE st
    IN  [closed EXCEPT !.current_words = Append(@, word)]

RECURSIVE SegLoop(_, _, _, _)
SegLoop(st, ws, i, target) ==
    IF i > Len(ws) THEN st
    ELSE SegLoop(SegStep(st, ws[i], target), ws, i + 1, target)

(* The end of the function without its last flush. *)
SegFinish_NoLastFlush(st) == st

(* "Don't forget the last phrase" *)
SegFinish(st) == Flush(st)

GroupWordsIntoPhrases(ws, target) == SegFinish(SegLoop(SegInit, ws, 1, target))

-----------------------------------------------------------------------------
(* main.py: resize_clip_vertical                                           *)

RECURSIVE GCD(_, _)
GCD(a, b) == IF b = 0 THEN a ELSE GCD(b, a % b)

IsPowerOfTwo(n) == \E e \in 0..30 : n = 2 ^ e

(* int(x) of a float x that was computed from the float quotient q = a / b
   and whose exact value is num / den.  When q is exact (b, reduced against
   a, is a power of two), or when num / den is no integer, int truncates to
   the exact floor; when num / den is an integer but q was rounded, x may
   fall just below it, and int then gives one less. *)
IntOfFloat(num, den, a, b) ==
    IF num % den = 0 /\ ~IsPowerOfTwo(b \div GCD(a, b))
    THEN {num \div den, (num \div den) - 1}
    ELSE {num \div den}

(* "x1 = x_center - (VERTICAL_WIDTH // 2)", "y1 = y_center - (VERTICAL_HEIGHT // 2)" *)
CropStart_FullExtent(center, extent) == center - extent

CropStart(center, extent) == center - (extent \div 2)

(* "current_ratio > target_ratio": w / h > 1080 / 1920; 1080 / 1920 is a
   float without rounding and w / h is rounded monotonically. *)
TooWide(w, h) == w * VERTICAL_HEIGHT > VERTICAL_WIDTH * h

(* The resizes and crops the function can make of a clip of size (w, h):
   the size the code computes for the scaled frame, and the rectangle
   (x1, y1, x2, y2) handed to crop. *)
ResizeClipVertical(w, h) ==
    IF TooWide(w, h)
    THEN { LET x1 == CropStart(new_width \div 2, VERTICAL_WIDTH)
           IN  [axis |-> "width",
                new_width |-> new_width, new_height |-> VERTICAL_HEIGHT,
                x1 |-> x1, y1 |-> 0,
                x2 |-> x1 + VERTICAL_WIDTH, y2 |-> VERTICAL_HEIGHT]
           : new_width \in IntOfFloat(VERTICAL_HEIGHT * w, h, w, h) }
    ELSE { LET y1 == CropStart(new_height \div 2, VERTICAL_HEIGHT)
           IN  [axis |-> "height",
                new_width |-> VERTICAL_WIDTH, new_height |-> new_height,
                x1 |-> 0, y1 |-> y1,
                x2 |-> VERTICAL_WIDTH, y2 |-> y1 + VERTICAL_HEIGHT]
           : new_height \in IntOfFloat(VERTICAL_WIDTH * h, w, w, h) }

-----------------------------------------------------------------------------
(* main.py: process_video_clip and create_video_sequence                    *)

(* "subclip_duration = min(5.0, clip.duration)" *)
SubclipDuration_Uncapped(native_duration) == native_duration

SubclipDuration(native_duration) == Min(ClipCap, native_duration)

(* process_video_clip(video_path): VideoFileClip raises on a file it cannot
   read; otherwise the clip is cut to clip.subclip(0, subclip_duration).
   Resizing and fading leave the duration as it is. *)
ProcessVideoClip(desc) ==
    IF ~desc.readable
    THEN [raised |-> TRUE, source |-> desc.path,
          trim_start |-> 0, trim_end |-> 0, duration |-> 0]
    ELSE [raised |-> FALSE, source |-> desc.path,
          trim_start |-> 0, trim_end |-> SubclipDuration(desc.native_duration),
          duration |-> SubclipDuration(desc.native_duration)]

(* "if total_duration >= target_duration: break" *)
EnoughClips_Greater(total_duration, target) == total_duration > target

EnoughClips(total_duration, target) == total_duration >= target

(* The locals of the loop; probed lists the paths handed to
   process_video_clip, stopped says the loop was left by break. *)
SeqInit ==
    [processed_clips |-> <<>>, total_duration |-> 0, probed |-> <<>>, stopped |-> FALSE]

(* "except Exception as e: print(...); continue" *)
OnError_Abort(st) == [st EXCEPT !.stopped = TRUE]

OnError(st) == st

(* One iteration of "for video_path in video_paths". *)
SeqStep(st, desc, target) ==
    LET clip == ProcessVideoClip(desc)
        st1  == [st EXCEPT !.probed = Append(@, desc.path)]
    IN  IF clip.raised
        THEN OnError(st1)
        ELSE LET total == st1.total_duration + clip.duration
             IN  [st1 EXCEPT !.processed_clips = Append(@, clip),
                             !.total_duration = total,
                             !.stopped = EnoughClips(total, target)]

RECURSIVE SeqLoop(_, _, _, _)
SeqLoop(st, paths, i, target) ==
    IF i > Len(paths) \/ st.stopped THEN st
    ELSE SeqLoop(SeqStep(st, paths[i], target), paths, i + 1, target)

(* concatenate_videoclips: clip k starts where clip k-1 ends. *)
StartOf(clips, k) == SumSeq([i \in 1..(k - 1) |-> clips[i].duration])

(* "if final_sequence.duration > target_duration:
        final_sequence = final_sequence.subclip(0, target_duration)" *)
FinalDuration_NoCut(duration, target) == duration

FinalDuration(duration, target) == IF duration > target THEN target ELSE duration

(* The returned sequence: its duration, and for each concatenated clip the
   part of it that lies inside [0, duration]. *)
Concatenate(clips, target) ==
    LET full  == SumSeq([i \in 1..Len(clips) |-> clips[i].duration])
        final == FinalDuration(full, target)
    IN  [duration |-> final,
         entries  |-> [k \in 1..Len(clips) |->
                          LET start == StartOf(clips, k)
                              shown == Max(0, Min(start + clips[k].duration, final) - start)
                          IN  [source     |-> clips[k].source,
                               trim_start |-> clips[k].trim_start,
                               trim_end   |-> clips[k].trim_start + shown,
                               start      |-> start,
                               duration   |-> shown]]]

CreateVideoSequence(paths, target) ==
    LET st == SeqLoop(SeqInit, paths, 1, target)
    IN  IF st.processed_clips = <<>>
        THEN [outcome |-> "ValueError", duration |-> 0, entries |-> <<>>,
              probed |-> st.probed]
        ELSE LET final == Concatenate(st.processed_clips, target)
             IN  [outcome |-> "returned", duration |-> final.duration,
                  entries |-> final.entries, probed |-> st.probed]

-----------------------------------------------------------------------------
(* Inputs of group_words_into_phrases.  The caller, generate_caption_clips, *)
(* builds the flat word list by extending it segment by segment; here it    *)
(* grows one word at a time.  Streams are well formed: start <= end for     *)
(* every word, and a word starts no earlier than the one before it ends.    *)
(* A word is given by the silence before it and by its length.              *)

MaxTargetWords == 3

Gaps == {1, PauseGap, PauseGap + 1}

Durs == {2, 12, MaxSpan + 1}

RunGaps == {1, PauseGap, PauseGap + 1}

RunDurs == {1, 2}

(* The text of the k-th word, with the whitespace a transcriber leaves. *)
WordText(k) ==
    CASE k % 3 = 1 -> <<"a">>
      [] k % 3 = 2 -> <<" ", "b">>
      [] OTHER     -> <<"c", " ">>

NextWord(ws, gap, dur) ==
    LET prev_end == IF ws = <<>> THEN 0 ELSE Last(ws).end
        start    == prev_end + gap
    IN  [text |-> WordText(Len(ws) + 1), start |-> start, end |-> start + dur]

WellFormed(ws) ==
    /\ \A k \in 1..Len(ws) : ws[k].start <= ws[k].end
    /\ \A k \in 1..(Len(ws) - 1) : ws[k].end <= ws[k + 1].start

-----------------------------------------------------------------------------
(* Specifications of the segmenter. *)

(* The variables of the functions a specification does not call. *)
IdleSeg ==
    /\ words = <<>>
    /\ target_words_per_phrase = 0
    /\ phrases = <<>>
    /\ runs = <<>>

IdleSeq ==
    /\ video_paths = <<>>
    /\ target_duration = 0
    /\ sequence = [outcome |-> "none"]

IdleCrop ==
    /\ clip_size = <<0, 0>>
    /\ crop = [axis |-> "none"]

InitSeg ==
    /\ pc = "words"
    /\ words = <<>>
    /\ target_words_per_phrase \in 0..MaxTargetWords
    /\ phrases = <<>>
    /\ runs = <<>>
    /\ IdleSeq
    /\ IdleCrop

InitRun ==
    /\ pc = "words"
    /\ words = <<>>
    /\ target_words_per_phrase \in 1..DefaultTarget
    /\ phrases = <<>>
    /\ runs = <<>>
    /\ IdleSeq
    /\ IdleCrop

(* words.extend(segment["words"]): one more word of the transcription. *)
ExtendWords ==
    /\ pc = "words"
    /\ Len(words) < MaxWords
    /\ \E gap \in Gaps, dur \in Durs :
           words' = Append(words, NextWord(words, gap, dur))
    /\ UNCHANGED <<pc, target_words_per_phrase, phrases, runs,
                   video_paths, target_duration, sequence, clip_size, crop>>

(* The same, for a narration of evenly long words. *)
ExtendRunWords ==
    /\ pc = "words"
    /\ Len(words) < MaxRunWords
    /\ \E gap \in RunGaps, dur \in RunDurs :
           /\ words # <<>> => dur = words[1].end - words[1].start
           /\ words' = Append(words, NextWord(words, gap, dur))
    /\ UNCHANGED <<pc, target_words_per_phrase, phrases, runs,
                   video_paths, target_duration, sequence, clip_size, crop>>

(* phrases = group_words_into_phrases(words, target_words_per_phrase) *)
Segment ==
    /\ pc = "words"
    /\ LET st == GroupWordsIntoPhrases(words, target_words_per_phrase)
       IN  /\ phrases' = st.phrases
           /\ runs' = st.runs
    /\ pc' = "segmented"
    /\ UNCHANGED <<words, target_words_per_phrase,
                   video_paths, target_duration, sequence, clip_size, crop>>

NextSeg == ExtendWords \/ Segment

NextRun == ExtendRunWords \/ Segment

SpecSeg == InitSeg /\ [][NextSeg]_vars

SpecRun == InitRun /\ [][NextRun]_vars

-----------------------------------------------------------------------------
(* Specification of the sequence builder.  The pool is the list of files    *)
(* load_video_assets collects; a file is readable, with a native duration   *)
(* > 0, or it is one VideoFileClip cannot open.  Its path is its place in   *)
(* the pool.                                                                *)

NativeDurations == {20, ClipCap, 70}

Targets == {1, 20, 49, 50, 51, 70, 100, 120, 250}

Descriptors(path) ==
    { [path |-> path, readable |-> FALSE, native_duration |-> 0] }
    \cup { [path |-> path, readable |-> TRUE, native_duration |-> d] : d \in NativeDurations }

InitSeq ==
    /\ pc = "videos"
    /\ video_paths = <<>>
    /\ target_duration \in Targets
    /\ sequence = [outcome |-> "none"]
    /\ IdleSeg
    /\ IdleCrop

(* video_files.extend(glob.glob(...)): one more file of the pool. *)
ExtendVideos ==
    /\ pc = "videos"
    /\ Len(video_paths) < MaxPool
    /\ \E desc \in Descriptors(Len(video_paths) + 1) :
           video_paths' = Append(video_paths, desc)
    /\ UNCHANGED <<pc, target_duration, sequence,
                   words, target_words_per_phrase, phrases, runs, clip_size, crop>>

(* final_video = create_video_sequence(video_paths, target_duration) *)
Build ==
    /\ pc = "videos"
    /\ sequence' = CreateVideoSequence(video_paths, target_duration)
    /\ pc' = "built"
    /\ UNCHANGED <<video_paths, target_duration,
                   words, target_words_per_phrase, phrases, runs, clip_size, crop>>

NextSeq == ExtendVideos \/ Build

SpecSeq == InitSeq /\ [][NextSeq]_vars

-----------------------------------------------------------------------------
(* Specification of the crop geometry. *)

CommonDims == {480, 640, 720, 1080, 1280, 1350, 1920}

Dims == (1..MaxDim) \cup CommonDims

InitCrop ==
    /\ pc = "clip"
    /\ clip_size \in Dims \X Dims
    /\ crop = [axis |-> "none"]
    /\ IdleSeg
    /\ IdleSeq

(* resized_clip = resize_clip_vertical(base_clip) *)
Resize ==
    /\ pc = "clip"
    /\ crop' \in ResizeClipVertical(clip_size[1], clip_size[2])
    /\ pc' = "resized"
    /\ UNCHANGED <<clip_size, words, target_words_per_phrase, phrases, runs,
                   video_paths, target_duration, sequence>>

SpecCrop == InitCrop /\ [][Resize]_vars

-----------------------------------------------------------------------------
(* Properties of group_words_into_phrases. *)

(* Every stream the specifications build is well formed. *)
InputsWellFormed == WellFormed(words)

(* The position in words of the last word of the j-th phrase. *)
RunEnd(rs, j) == SumSeq([i \in 1..j |-> Len(rs[i])])

Boundaries(rs) == { RunEnd(rs, j) : j \in 1..Len(rs) }

(* The index of the phrase that holds the k-th word. *)
PhraseOf(rs, k) ==
    CHOOSE j \in 1..Len(rs) : RunEnd(rs, j) - Len(rs[j]) < k /\ k <= RunEnd(rs, j)

GapAfter(ws, k) == ws[k + 1].start - ws[k].end

(* A maximal run of words a..b with no pause inside: it begins the stream or
   follows a pause, and it ends the stream or is followed by a pause. *)
QuietRun(ws, a, b) ==
    /\ 1 <= a /\ a <= b /\ b <= Len(ws)
    /\ a = 1 \/ GapAfter(ws, a - 1) > PauseGap
    /\ b = Len(ws) \/ GapAfter(ws, b) > PauseGap
    /\ \A k \in a..(b - 1) : GapAfter(ws, k) <= PauseGap

(* C1: the phrases' word runs, concatenated in output order, are exactly the
   input word sequence (no word lost, duplicated or reordered), each phrase
   is made of its run (times of its first and last word, the trimmed texts
   joined in order), and the empty stream gives the empty list. *)
C1_Coverage ==
    (pc = "segmented" /\ WellFormed(words)) =>
        /\ Flatten(runs) = words
        /\ Len(phrases) = Len(runs)
        /\ \A j \in 1..Len(runs) :
               /\ runs[j] # <<>>
               /\ phrases[j].start_time = runs[j][1].start
               /\ phrases[j].end_time = Last(runs[j]).end
               /\ phrases[j].text = JoinStripped(runs[j])
        /\ words = <<>> => phrases = <<>>

C1_Witness ==
    /\ pc = "segmented"
    /\ Len(words) >= 4
    /\ Len(phrases) >= 2
    /\ Len(Last(runs)) >= 2
    /\ Flatten(runs) = words
    /\ Last(phrases).text = <<"c", " ", "a">>

(* C5: a pause of more than 0.7 s between word k and word k+1 puts them in
   different phrases, word k the last of its phrase and word k+1 the first
   of the next, whatever the accumulated count and the target. *)
C5_PauseForcesBoundary ==
    pc = "segmented" =>
        \A k \in 1..(Len(words) - 1) :
            GapAfter(words, k) > PauseGap =>
                \E j \in 1..(Len(runs) - 1) :
                    /\ RunEnd(runs, j) = k
                    /\ Last(runs[j]) = words[k]
                    /\ runs[j + 1][1] = words[k + 1]

(* A pause alone forces the boundary: the phrase before it is short of the
   target and the next word would still fit the 4.0 s span. *)
C5_Witness ==
    /\ pc = "segmented"
    /\ \E k \in 1..(Len(words) - 1) :
           /\ GapAfter(words, k) > PauseGap
           /\ k \in Boundaries(runs)
           /\ Len(runs[PhraseOf(runs, k)]) < target_words_per_phrase
           /\ words[k + 1].end - runs[PhraseOf(runs, k)][1].start <= MaxSpan

(* C6: with target n >= 1, a run of words without a pause that spans less
   than 4.0 s is split exactly at every n-th word of the run: the phrase
   boundaries inside the run a..b are a-1+n, a-1+2n, ... and b; and no phrase
   ever holds more than n words. *)
C6_SplitAtTarget ==
    (pc = "segmented" /\ target_words_per_phrase >= 1) =>
        LET n == target_words_per_phrase
        IN  /\ \A a, b \in 1..Len(words) :
                   (QuietRun(words, a, b) /\ words[b].end - words[a].start < MaxSpan) =>
                       /\ a = 1 \/ (a - 1) \in Boundaries(runs)
                       /\ Boundaries(runs) \cap (a..b) =
                              { k \in a..b : k = b \/ (k - a + 1) % n = 0 }
            /\ \A j \in 1..Len(runs) : Len(runs[j]) \in 1..n

(* Six words 0.1 s apart with the default target: a phrase of five words,
   then a phrase of one. *)
C6_Witness ==
    /\ pc = "segmented"
    /\ target_words_per_phrase = DefaultTarget
    /\ Len(words) = 6
    /\ \A k \in 1..5 : GapAfter(words, k) = 1
    /\ words[6].end - words[1].start < MaxSpan
    /\ Len(runs) = 2
    /\ Len(runs[1]) = 5
    /\ Len(runs[2]) = 1

(* C7: a phrase of two or more words spans at most 4.0 s; a phrase that
   spans more is one word whose own span exceeds 4.0 s; and such a word is a
   phrase of its own, not merged with a neighbour. *)
C7_SpanLimit ==
    pc = "segmented" =>
        /\ \A j \in 1..Len(phrases) :
               /\ Len(runs[j]) >= 2 =>
                      phrases[j].end_time - phrases[j].start_time <= MaxSpan
               /\ phrases[j].end_time - phrases[j].start_time > MaxSpan =>
                      /\ Len(runs[j]) = 1
                      /\ runs[j][1].end - runs[j][1].start > MaxSpan
        /\ \A k \in 1..Len(words) :
               words[k].end - words[k].start > MaxSpan =>
                   \E j \in 1..Len(runs) :
                       /\ RunEnd(runs, j) = k
                       /\ runs[j] = <<words[k]>>

(* An oversized word between two neighbours that no pause separates from it,
   with a target that would let them merge, and a phrase of several words
   that spans exactly 4.0 s. *)
C7_Witness ==
    /\ pc = "segmented"
    /\ target_words_per_phrase >= 3
    /\ \E k \in 2..(Len(words) - 1) :
           /\ words[k].end - words[k].start > MaxSpan
           /\ GapAfter(words, k - 1) <= PauseGap
           /\ GapAfter(words, k) <= PauseGap
           /\ runs[PhraseOf(runs, k)] = <<words[k]>>

C7_WitnessExactSpan ==
    /\ pc = "segmented"
    /\ \E j \in 1..Len(phrases) :
           /\ Len(runs[j]) >= 2
           /\ phrases[j].end_time - phrases[j].start_time = MaxSpan

-----------------------------------------------------------------------------
(* Properties of create_video_sequence. *)

IsReadable(desc) == desc.readable

(* What a descriptor can contribute: its duration capped at 5.0 s, and 0
   when it is unreadable. *)
Capped(desc) == IF desc.readable THEN Min(ClipCap, desc.native_duration) ELSE 0

Capacity(paths) == SumSeq([i \in 1..Len(paths) |-> Capped(paths[i])])

RemoveAt(s, i) == SubSeq(s, 1, i - 1) \o SubSeq(s, i + 1, Len(s))

(* The length of the shortest prefix of the pool that reaches the target,
   and the length of the pool when none does. *)
ReachingPrefix(paths, target) ==
    LET reaching == { k \in 0..Len(paths) : Capacity(SubSeq(paths, 1, k)) >= target }
    IN  IF reaching = {} THEN Len(paths)
        ELSE CHOOSE k \in reaching : \A m \in reaching : k <= m

Returned == pc = "built" /\ sequence.outcome = "returned"

EntryDurations == [k \in 1..Len(sequence.entries) |-> sequence.entries[k].duration]

(* C2: a returned sequence is never longer than target_duration, and it is
   exactly target_duration long whenever the readable clips of the pool,
   each capped at 5.0 s, sum to at least target_duration. *)
C2_NeverLonger ==
    Returned =>
        /\ sequence.duration <= target_duration
        /\ sequence.duration = SumSeq(EntryDurations)
        /\ Capacity(video_paths) >= target_duration =>
               sequence.duration = target_duration

(* The pool covers the target with excess, and the last clip is cut. *)
C2_Witness ==
    /\ Returned
    /\ Capacity(video_paths) > target_duration
    /\ sequence.duration = target_duration
    /\ Len(sequence.entries) >= 2
    /\ LET last == Last(sequence.entries)
       IN  last.duration < Capped(video_paths[last.source])

(* C3: a pool whose capped total duration is less than target_duration
   makes the build fail; no sequence shorter than the target is returned. *)
C3_InsufficientFails ==
    (pc = "built" /\ Capacity(video_paths) < target_duration) =>
        sequence.outcome # "returned"

(* C4: an unreadable descriptor is skipped without aborting the build: the
   loop goes on with the next descriptor, and the outcome, the entries and
   the total duration are those of the pool without that descriptor. *)
C4_UnreadableSkipped ==
    pc = "built" =>
        \A i \in 1..Len(video_paths) :
            ~video_paths[i].readable =>
                LET without == CreateVideoSequence(RemoveAt(video_paths, i), target_duration)
                    before  == SubSeq(video_paths, 1, i - 1)
                IN  /\ without.outcome = sequence.outcome
                    /\ without.entries = sequence.entries
                    /\ without.duration = sequence.duration
                    /\ (i < Len(video_paths) /\ Capacity(before) < target_duration) =>
                           \E n \in 1..Len(sequence.probed) : sequence.probed[n] = i + 1

(* An unreadable descriptor between two clips of the returned sequence. *)
C4_Witness ==
    /\ Returned
    /\ \E i \in 2..(Len(video_paths) - 1) :
           /\ ~video_paths[i].readable
           /\ \E a, b \in 1..Len(sequence.entries) :
                  /\ sequence.entries[a].source < i
                  /\ sequence.entries[b].source > i

(* C9: every entry of a returned sequence lasts more than 0 and at most
   5.0 s, every clip is cut from its start to min(5.0, native duration), the
   final cut shortens the last entry only and removes none: the entries
   before the last sum to less than target_duration. *)
C9_EntryDurations ==
    Returned =>
        LET es == sequence.entries
            n  == Len(es)
        IN  /\ n >= 1
            /\ \A k \in 1..n :
                   /\ es[k].duration > 0
                   /\ es[k].duration <= ClipCap
                   /\ es[k].trim_start = 0
                   /\ es[k].duration = es[k].trim_end - es[k].trim_start
                   /\ es[k].trim_end <= Min(ClipCap, video_paths[es[k].source].native_duration)
                   /\ k < n => es[k].trim_end =
                                   Min(ClipCap, video_paths[es[k].source].native_duration)
            /\ SumSeq(SubSeq(EntryDurations, 1, n - 1)) < target_duration

(* A clip longer than 5.0 s is capped, and the last entry is shortened. *)
C9_Witness ==
    /\ Returned
    /\ Len(sequence.entries) >= 2
    /\ \E k \in 1..Len(sequence.entries) :
           /\ video_paths[sequence.entries[k].source].native_duration > ClipCap
           /\ sequence.entries[k].duration = ClipCap
    /\ LET last == Last(sequence.entries)
       IN  /\ last.duration > 0
           /\ last.duration < Capped(video_paths[last.source])

(* C10: descriptors are consumed in pool order up to the first one after
   which the running sum reaches target_duration: the descriptors processed
   are exactly those of the shortest prefix that reaches the target (the
   whole pool if none does), the entries are the readable ones among them,
   in pool order, and nothing beyond the prefix is processed. *)
C10_PoolOrderPrefix ==
    pc = "built" =>
        LET k      == ReachingPrefix(video_paths, target_duration)
            prefix == SubSeq(video_paths, 1, k)
            usable == SelectSeq(prefix, IsReadable)
        IN  /\ sequence.probed = [i \in 1..k |-> i]
            /\ Len(sequence.entries) = Len(usable)
            /\ \A j \in 1..Len(usable) : sequence.entries[j].source = usable[j].path
            /\ sequence.outcome = IF usable = <<>> THEN "ValueError" ELSE "returned"

(* The running sum meets the target exactly at a descriptor that is not the
   last of the pool, after an unreadable one; the rest is left alone. *)
C10_Witness ==
    /\ Returned
    /\ Len(sequence.probed) < Len(video_paths)
    /\ Len(sequence.entries) < Len(sequence.probed)
    /\ Len(sequence.entries) >= 2
    /\ Capacity(SubSeq(video_paths, 1, Len(sequence.probed))) = target_duration

-----------------------------------------------------------------------------
(* Properties of resize_clip_vertical. *)

Abs(x) == IF x < 0 THEN -x ELSE x

(* C8: the crop rectangle is exactly 1080 x 1920, lies inside the scaled
   frame, is centred on the cropped axis (the two margins differ by at most
   one pixel) with no offset on the other axis, whose scaled length is the
   target's; the frame is scaled uniformly (up to the truncation to whole
   pixels); the width is cropped when w / h > 1080 / 1920, the height
   otherwise. *)
C8_CropGeometry ==
    pc = "resized" =>
        LET w == clip_size[1]
            h == clip_size[2]
            c == crop
        IN  /\ c.x2 - c.x1 = VERTICAL_WIDTH
            /\ c.y2 - c.y1 = VERTICAL_HEIGHT
            /\ 0 <= c.x1 /\ c.x2 <= c.new_width
            /\ 0 <= c.y1 /\ c.y2 <= c.new_height
            /\ c.axis = IF w * VERTICAL_HEIGHT > VERTICAL_WIDTH * h
                        THEN "width" ELSE "height"
            /\ c.axis = "width" =>
                   /\ c.new_height = VERTICAL_HEIGHT
                   /\ c.y1 = 0
                   /\ Abs(c.x1 - (c.new_width - c.x2)) <= 1
                   /\ c.new_width * h <= VERTICAL_HEIGHT * w
                   /\ VERTICAL_HEIGHT * w < (c.new_width + 2) * h
            /\ c.axis = "height" =>
                   /\ c.new_width = VERTICAL_WIDTH
                   /\ c.x1 = 0
                   /\ Abs(c.y1 - (c.new_height - c.y2)) <= 1
                   /\ c.new_height * w <= VERTICAL_WIDTH * h
                   /\ VERTICAL_WIDTH * h < (c.new_height + 2) * w

(* A 4:3 source, 640 x 480: scaled to 2560 x 1920 and cropped to the columns
   740..1820. *)
C8_Witness ==
    /\ pc = "resized"
    /\ clip_size = <<640, 480>>
    /\ crop.axis = "width"
    /\ crop.new_width = 2560
    /\ crop.x1 = 740
    /\ crop.x2 = 1820
    /\ crop.new_width - crop.x2 = crop.x1

=============================================================================
